---------------------------- MODULE Spec2Model ----------------------------
(***************************************************************************)
(* Model of readingEaseLevel.py: the text normaliser (getData), the        *)
(* punctuation stripper, the syllable estimator, the corpus metrics, the   *)
(* two readability formulas, the two report writers and main.              *)
(*                                                                         *)
(* A Python str is modelled as a sequence of one-character strings, so     *)
(* that str.count, str.replace, str.split, str.lower, str.rstrip and       *)
(* str.endswith are computed the way CPython computes them.                *)
(***************************************************************************)
EXTENDS Integers, Sequences, FiniteSets, TLC

VARIABLES
    pc,              \* position of the running script / of the called function
    file,            \* the lines of the input file (without their line ends)
    fileAsString,    \* getData's return value
    totalSyllables,  \* main's locals
    totalWords,
    totalSentences,
    readingEase,
    readingLevel,
    report,          \* report.csv: [exists, content]
    reportBefore,    \* report.csv as it was when the current run of main began
    lastReported,    \* the input of the latest run of main that wrote its report
    console,         \* what the run printed last (diagnostic or summary)
    word,            \* argument of syllablesPerWord
    syllables,       \* the three values syllablesPerWord prints, and its result
    topN,            \* argument N of printTopNwords
    sorted_WC        \* the ranking printTopNwords prints

vars == << pc, file, fileAsString, totalSyllables, totalWords, totalSentences,
           readingEase, readingLevel, report, reportBefore, lastReported,
           console, word, syllables, topN, sorted_WC >>

-----------------------------------------------------------------------------
(* Bounds of the model                                                     *)

MaxWordLen == 4

-----------------------------------------------------------------------------
(* Python str primitives                                                   *)

UpperCase == <<"A","B","C","D","E","F","G","H","I","J","K","L","M",
               "N","O","P","Q","R","S","T","U","V","W","X","Y","Z">>
LowerCase == <<"a","b","c","d","e","f","g","h","i","j","k","l","m",
               "n","o","p","q","r","s","t","u","v","w","x","y","z">>

\* the characters str.split() and str.rstrip() treat as white space (ASCII)
Whitespace == {" ", "\t", "\n", "\r", "\f"}

\* string.punctuation (its grave accent cannot be written in a TLA+ string;
\* no text of the model contains one)
Punctuation == {"!", "\"", "#", "$", "%", "&", "'", "(", ")", "*", "+", ",",
                "-", ".", "/", ":", ";", "<", "=", ">", "?", "@", "[", "\\",
                "]", "^", "_", "{", "|", "}", "~"}

LowerChar(c) ==
    IF \E i \in 1..Len(UpperCase) : UpperCase[i] = c
    THEN LowerCase[CHOOSE i \in 1..Len(UpperCase) : UpperCase[i] = c]
    ELSE c

\* str.lower()
lower(s) == [i \in 1..Len(s) |-> LowerChar(s[i])]

\* str.rstrip()
RECURSIVE rstrip(_)
rstrip(s) ==
    IF s # <<>> /\ s[Len(s)] \in Whitespace
    THEN rstrip(SubSeq(s, 1, Len(s) - 1))
    ELSE s

startswith(s, sub) == Len(s) >= Len(sub) /\ SubSeq(s, 1, Len(sub)) = sub

\* str.endswith(suffix)
endswith(s, sub) ==
    Len(s) >= Len(sub) /\ SubSeq(s, Len(s) - Len(sub) + 1, Len(s)) = sub

\* str.count(sub): non-overlapping occurrences, scanning left to right
RECURSIVE count(_, _)
count(s, sub) ==
    IF Len(s) < Len(sub) THEN 0
    ELSE IF startswith(s, sub)
         THEN 1 + count(SubSeq(s, Len(sub) + 1, Len(s)), sub)
         ELSE count(Tail(s), sub)

\* str.replace(old, new): every non-overlapping occurrence, left to right
RECURSIVE replace(_, _, _)
replace(s, old, new) ==
    IF Len(s) < Len(old) THEN s
    ELSE IF startswith(s, old)
         THEN new \o replace(SubSeq(s, Len(old) + 1, Len(s)), old, new)
         ELSE <<Head(s)>> \o replace(Tail(s), old, new)

\* str.split(): maximal runs of non-white-space characters
RECURSIVE splitFrom(_, _, _)
splitFrom(s, cur, acc) ==
    IF s = <<>>
    THEN IF cur = <<>> THEN acc ELSE Append(acc, cur)
    ELSE IF Head(s) \in Whitespace
         THEN splitFrom(Tail(s), <<>>, IF cur = <<>> THEN acc ELSE Append(acc, cur))
         ELSE splitFrom(Tail(s), Append(cur, Head(s)), acc)

split(s) == splitFrom(s, <<>>, <<>>)

\* all strings over an alphabet, of length 0..n
StringsUpTo(alphabet, n) == UNION {[1..k -> alphabet] : k \in 0..n}

-----------------------------------------------------------------------------
(* Constants of the script                                                 *)

SENTENCE_MARKER == <<"X","X","X">>

TOP_N_WORDS == 10

-----------------------------------------------------------------------------
(* syllablesPerWord                                                        *)

diphtohongList == << <<"o","i">>, <<"o","y">>, <<"o","u">>, <<"o","w">>,
                     <<"a","i">>, <<"a","u">>, <<"a","y">>, <<"a","w">>,
                     <<"o","o">>, <<"i","e">>, <<"e","a">>, <<"e","e">> >>

vowelList == << <<"a">>, <<"e">>, <<"i">>, <<"o">>, <<"u">>, <<"y">> >>

specialCases == {
    <<"r","e","c","i","p","e">>,
    <<"a","p","o","s","t","r","o","p","h","e">>,
    <<"c","a","t","a","s","t","r","o","p","h","e">>,
    <<"a","c","n","e">>,
    <<"e","p","i","t","o","m","e">>,
    <<"k","a","r","a","t","e">>,
    <<"s","e","s","a","m","e">>,
    <<"p","o","s","s","e">>,
    <<"v","i","g","i","l","a","n","t","e">>,
    <<"c","l","i","c","h","e">>,
    <<"f","i","a","n","c","e">>,
    <<"r","e","s","u","m","e">>,
    <<"m","i","d","d","l","e">>,
    <<"t","h","e">> }

\* sum of w.count(p) over the patterns of a list
RECURSIVE SumCounts(_, _)
SumCounts(w, list) ==
    IF list = <<>> THEN 0 ELSE count(w, Head(list)) + SumCounts(w, Tail(list))

\* step (1): w is the lowercased word
CountVowels(w) == SumCounts(w, vowelList)

\* step (2): the silent-e check without the exception list
SilentE_NoExceptions(w, wordVowels) ==
    IF endswith(w, <<"e">>)
    THEN IF wordVowels # 0 THEN wordVowels - 1 ELSE wordVowels
    ELSE wordVowels

\* step (2): w is the lowercased word, wordVowels the count after step (1)
SilentE(w, wordVowels) ==
    IF endswith(w, <<"e">>) /\ w \notin specialCases
    THEN IF wordVowels # 0 THEN wordVowels - 1 ELSE wordVowels
    ELSE wordVowels

\* step (3)
Diphthongs(w, wordVowels) == wordVowels - SumCounts(w, diphtohongList)

\* the final test without the "at least one syllable" branch
AtLeastOne_Missing(wordVowels) == wordVowels

\* the final test written as "< 0", which lets a count of 0 through
AtLeastOne_NegativeOnly(wordVowels) == IF wordVowels < 0 THEN 1 ELSE wordVowels

\* the final test of syllablesPerWord
AtLeastOne(wordVowels) == IF wordVowels = 0 THEN 1 ELSE wordVowels

\* the values the function prints after steps (1), (2), (3), and its result
syllablesPerWordTrace(wd) ==
    LET w  == lower(wd)
        v1 == CountVowels(w)
        v2 == SilentE(w, v1)
        v3 == Diphthongs(w, v2)
    IN  [vowels |-> v1, afterSilentE |-> v2, afterDiphthongs |-> v3,
         result |-> AtLeastOne(v3)]

syllablesPerWord(wd) == syllablesPerWordTrace(wd).result

-----------------------------------------------------------------------------
(* Defaults of the variables a specification does not use                  *)

NoString == <<>>
NoReport == [exists |-> FALSE, content |-> <<>>]
NoRun    == [ran |-> FALSE, file |-> <<>>]
NoScore  == [branch |-> "none", num |-> 0, den |-> 1, err |-> 0]
NoTrace  == [vowels |-> 0, afterSilentE |-> 0, afterDiphthongs |-> 0, result |-> 0]

-----------------------------------------------------------------------------
(* SpecSyllable: syllablesPerWord applied to every word of a bounded set   *)

SylAlphabet == {"o", "w", "e", "a", "i", "t", "E"}

SampleWords == {
    <<"y","o","u">>, <<"a","y","e">>, <<"t","h","e","y">>,
    <<"q","u","e","u","e">>, <<"T","h","e">>, <<"T","H","E">>,
    <<"e","y","e">>, <<"A","p","p","l","e">>, <<"r","h","y","t","h","m">>,
    <<"x","x","x">>, <<"1","9","8","4">>, <<"a","w","e","s","o","m","e">> }

Words == (StringsUpTo(SylAlphabet, MaxWordLen) \ {<<>>})
           \cup specialCases \cup SampleWords

SylInit ==
    /\ pc = "syllablesPerWord"
    /\ word \in Words
    /\ syllables = NoTrace
    /\ file = <<>> /\ fileAsString = NoString
    /\ totalSyllables = 0 /\ totalWords = 0 /\ totalSentences = 0
    /\ readingEase = NoScore /\ readingLevel = NoScore
    /\ report = NoReport /\ reportBefore = NoReport /\ lastReported = NoRun
    /\ console = NoString /\ topN = 0 /\ sorted_WC = <<>>

CallSyllablesPerWord ==
    /\ pc = "syllablesPerWord"
    /\ syllables' = syllablesPerWordTrace(word)
    /\ pc' = "returned"
    /\ UNCHANGED << file, fileAsString, totalSyllables, totalWords,
                    totalSentences, readingEase, readingLevel, report,
                    reportBefore, lastReported, console, word, topN, sorted_WC >>

SylNext == CallSyllablesPerWord

SpecSyllable == SylInit /\ [][SylNext]_vars

\* C1: for every non-empty word syllablesPerWord returns an integer >= 1, and
\* the running count after vowel counting, silent-e suppression and diphthong
\* subtraction is never negative.
SyllableCountPositive ==
    pc = "returned" =>
        /\ word # <<>>
        /\ syllables.afterDiphthongs >= 0
        /\ syllables.result \in Nat
        /\ syllables.result >= 1

\* a word with a 'w' diphthong and a trailing 'e' whose running count reaches 0
SyllableFloorReached ==
    /\ pc = "returned"
    /\ word = <<"o","w","e">>
    /\ syllables.vowels = 2
    /\ syllables.afterDiphthongs = 0
    /\ syllables.result = 1

\* C9: for a word of the exception list the silent-e step subtracts nothing;
\* for every other word ending in 'e' with a non-zero vowel count it
\* subtracts exactly 1 (the word being the lowercased argument, as in the code).
SilentEStep ==
    pc = "returned" =>
        LET w == lower(word) IN
        /\ w \in specialCases =>
              /\ endswith(w, <<"e">>)
              /\ syllables.afterSilentE = syllables.vowels
        /\ (w \notin specialCases /\ endswith(w, <<"e">>) /\ syllables.vowels # 0) =>
              syllables.afterSilentE = syllables.vowels - 1

\* "the" keeps its single vowel through the silent-e step
SilentEExceptionKept ==
    /\ pc = "returned"
    /\ word = <<"t","h","e">>
    /\ syllables.vowels = 1
    /\ syllables.afterSilentE = 1

-----------------------------------------------------------------------------
(* getData: the normaliser.  The prompt for a file name and the existence  *)
(* loop are outside the model; the file's lines are the input.             *)

\* for nextLine in INPUT: each line is read with its line end
ReadLine(line) == line \o <<"\n">>

\* the six abbreviation replacements, in the order of the code
Abbreviations == <<
    << <<"m","r",".">>,         <<"m","r">> >>,
    << <<"m","r","s",".">>,     <<"m","r","s">> >>,
    << <<"m","s",".">>,         <<"m","s">> >>,
    << <<"d","r",".">>,         <<"d","r">> >>,
    << <<"s","t",".">>,         <<"s","t">> >>,
    << <<"p","r","o","f",".">>, <<"p","r","o","f">> >> >>

RECURSIVE ReplaceEach(_, _)
ReplaceEach(line, pairs) ==
    IF pairs = <<>> THEN line
    ELSE ReplaceEach(replace(line, Head(pairs)[1], Head(pairs)[2]), Tail(pairs))

\* the abbreviation step with the "dr." line left out
Undot_NoDr(line) ==
    ReplaceEach(line, SelectSeq(Abbreviations, LAMBDA p : p[2] # <<"d","r">>))

\* "handle some abbreviations"
Undot(line) == ReplaceEach(line, Abbreviations)

MARK == <<" ">> \o SENTENCE_MARKER \o <<" ">>

\* the delimiter step with the "!" line left out
MarkSentences_NoBang(line) ==
    replace(replace(line, <<".">>, MARK), <<"?">>, MARK)

\* "add delimiter for end of the sentences"
MarkSentences(line) ==
    replace(replace(replace(line, <<".">>, MARK), <<"?">>, MARK), <<"!">>, MARK)

\* the body of the loop without the call of lower()
NormalizeLine_NoLower(nextLine) == MarkSentences(Undot(rstrip(nextLine)))

\* the body of the loop over the lines
NormalizeLine(nextLine) == MarkSentences(Undot(lower(rstrip(nextLine))))

RECURSIVE getData(_)
getData(f) ==
    IF f = <<>> THEN <<>>
    ELSE NormalizeLine(ReadLine(Head(f))) \o getData(Tail(f))

\* getNumberOfTotalSentences
getNumberOfTotalSentences(s) == count(s, SENTENCE_MARKER)

-----------------------------------------------------------------------------
(* SpecNormalize: getData and getNumberOfTotalSentences applied to every   *)
(* file of a bounded set                                                   *)

MaxLineLen == 4
MaxJoinLen == 2

NormAlphabet == {"s", "t", ".", "!", "?", " ", "X"}
AbbrevAlphabet == {"m", "r", "s", "d", "."}
JoinAlphabet == {".", "X", " "}

Line_CatDog  == <<"T","h","e"," ","c","a","t"," ","s","a","t","."," ","T","h","e"," ","d","o","g"," ","r","a","n","!">>
Line_DrSmith == <<"d","r","."," ","s","m","i","t","h">>

SampleFiles == {
    <<>>,
    << Line_CatDog >>,
    << Line_DrSmith >>,
    << <<"M","r","."," ","a","n","d"," ","M","r","s","."," ","X"," ","m","e","t"," ","P","r","o","f","."," ","S","t","."," ","J","o","h","n","?"," ","Y","e","s","!">> >>,
    << <<"m","s",".","t",".">> >>,
    << <<"M","s",".","."," ","D","r",".">> >>,
    << <<"m","r","s","."," ","s","m","i","t","h">> >>,
    << <<"f","i","r","s","t","."," ","b","e","s","t">> >>,
    << <<"d","r","a","m","a","."," ","d","r",".","x">> >>,
    << <<"P","r","o","f","."," ","M","s","."," ","S","t",".">> >>,
    << <<"H","e","l","l","o"," ","t","h","e","r","e","."," "," ">>, <<>>,
       <<"I","s"," ","i","t","?"," ">>, <<" ","n","o">> >> }

NormFiles ==
    {<<l>> : l \in StringsUpTo(NormAlphabet, MaxLineLen)}
      \cup {<<l>> : l \in StringsUpTo(AbbrevAlphabet, MaxLineLen)}
      \cup (StringsUpTo(JoinAlphabet, MaxJoinLen) \X StringsUpTo(JoinAlphabet, MaxJoinLen))
      \cup SampleFiles

NormInit ==
    /\ pc = "getData"
    /\ file \in NormFiles
    /\ fileAsString = NoString
    /\ totalSyllables = 0 /\ totalWords = 0 /\ totalSentences = 0
    /\ readingEase = NoScore /\ readingLevel = NoScore
    /\ report = NoReport /\ reportBefore = NoReport /\ lastReported = NoRun
    /\ console = NoString /\ word = <<>> /\ syllables = NoTrace
    /\ topN = 0 /\ sorted_WC = <<>>

CallGetData ==
    /\ pc = "getData"
    /\ fileAsString' = getData(file)
    /\ pc' = "getNumberOfTotalSentences"
    /\ UNCHANGED << file, totalSyllables, totalWords, totalSentences,
                    readingEase, readingLevel, report, reportBefore, lastReported, console,
                    word, syllables, topN, sorted_WC >>

CallGetNumberOfTotalSentences ==
    /\ pc = "getNumberOfTotalSentences"
    /\ totalSentences' = getNumberOfTotalSentences(fileAsString)
    /\ pc' = "counted"
    /\ UNCHANGED << file, fileAsString, totalSyllables, totalWords,
                    readingEase, readingLevel, report, reportBefore, lastReported, console,
                    word, syllables, topN, sorted_WC >>

NormNext == CallGetData \/ CallGetNumberOfTotalSentences

SpecNormalize == NormInit /\ [][NormNext]_vars

Terminals == {".", "?", "!"}

CountChars(s, set) == Cardinality({i \in 1..Len(s) : s[i] \in set})

RECURSIVE SumSeq(_)
SumSeq(ns) == IF ns = <<>> THEN 0 ELSE Head(ns) + SumSeq(Tail(ns))

SumOverLines(f, Op(_)) == SumSeq([i \in 1..Len(f) |-> Op(f[i])])

\* the '.', '?' and '!' left in a lowercased, right-trimmed line after the
\* six un-dottings
TerminalsLeft(line) == CountChars(Undot(lower(rstrip(ReadLine(line)))), Terminals)

\* C2: getNumberOfTotalSentences of the normaliser's output equals the number
\* of '.', '?' and '!' that remain in the lowercased, right-trimmed lines after
\* the abbreviation un-dottings; no marker merges, overlaps or comes from
\* anything else.
SentenceCountIsTerminalCount ==
    pc = "counted" => totalSentences = SumOverLines(file, TerminalsLeft)

\* consecutive marks on one line, a mark on the next, and capital X's that
\* must not read as a marker
ConsecutiveMarksCounted ==
    /\ pc = "counted"
    /\ file = << <<".",".">>, <<"X",".">> >>
    /\ totalSentences = 3

\* the periods of a lowercased, right-trimmed line that end an occurrence of
\* one of the six abbreviations
AbbreviationDots(line) ==
    LET l == lower(rstrip(ReadLine(line))) IN
    Cardinality({j \in 1..Len(l) :
        \E k \in 1..Len(Abbreviations) :
            LET a == Abbreviations[k][1] IN
            j >= Len(a) /\ SubSeq(l, j - Len(a) + 1, j) = a})

TerminalsIn(line) == CountChars(lower(rstrip(ReadLine(line))), Terminals)

\* C7: the period of each occurrence of "mr.", "mrs.", "ms.", "dr.", "st." or
\* "prof." is removed and yields no sentence marker; "dr. smith" becomes
\* "dr smith" and adds nothing to the sentence count.
AbbreviationPeriodsDropped ==
    pc = "counted" =>
        /\ totalSentences + SumOverLines(file, AbbreviationDots)
              <= SumOverLines(file, TerminalsIn)
        /\ CountChars(fileAsString, Terminals) = 0
        /\ file = << Line_DrSmith >> =>
              /\ fileAsString = <<"d","r"," ","s","m","i","t","h">>
              /\ totalSentences = 0

DrSmithNormalized ==
    /\ pc = "counted"
    /\ file = << Line_DrSmith >>
    /\ SumOverLines(file, AbbreviationDots) = 1
    /\ totalSentences = 0

\* C8 as stated: "The cat sat. The dog ran!" normalises to exactly
\* "the cat sat XXX the dog ran XXX ".
CatDogNormalizedAsStated ==
    (pc = "counted" /\ file = << Line_CatDog >>) =>
        fileAsString = <<"t","h","e"," ","c","a","t"," ","s","a","t"," ","X","X","X"," ","t","h","e"," ","d","o","g"," ","r","a","n"," ","X","X","X"," ">>

\* C8 as amended: "The cat sat. The dog ran!" normalises to exactly
\* "the cat sat XXX  the dog ran XXX ": the first marker's own trailing space
\* is followed by the space that followed the period.
CatDogNormalized ==
    (pc = "counted" /\ file = << Line_CatDog >>) =>
        fileAsString = <<"t","h","e"," ","c","a","t"," ","s","a","t"," ","X","X","X"," "," ","t","h","e"," ","d","o","g"," ","r","a","n"," ","X","X","X"," ">>

CatDogRun ==
    /\ pc = "counted"
    /\ file = << Line_CatDog >>
    /\ totalSentences = 2

-----------------------------------------------------------------------------
(* The readability formulas.  The code computes a score in IEEE doubles;   *)
(* here a score is the exact rational num / (1000 * den) together with     *)
(* err, the sign of the double's rounding error against that exact value   *)
(* (unknown to the model, so any of -1, 0, 1).  err decides only how a     *)
(* score that lies exactly between two hundredths is printed.  branch      *)
(* records which return statement produced the score.                      *)

RoundingErrors == {-1, 0, 1}

\* a / b of Python: ZeroDivisionError when b = 0
Divide(a, b) == [error |-> b = 0, num |-> a, den |-> b]

\* return 0 (the int)
ReturnZero == [branch |-> "guard", num |-> 0, den |-> 1, err |-> 0]

RaiseZeroDivision == [branch |-> "ZeroDivisionError", num |-> 0, den |-> 1, err |-> 0]

\* the guard with the syllable test forgotten
EaseGuard_NoSyllables(S, W, T) == W = 0 \/ T = 0

\* if totalSyllables == 0 or totalWords == 0 or totalSentences == 0
EaseGuard(S, W, T) == S = 0 \/ W = 0 \/ T = 0

GradeGuard(S, W, T) == S = 0 \/ W = 0 \/ T = 0

\* 206.835 - (1.015 * (W / T)) - (84.6 * (S / W))
EaseFormula(S, W, T) ==
    LET wt == Divide(W, T)
        sw == Divide(S, W)
    IN  IF wt.error \/ sw.error THEN {RaiseZeroDivision}
        ELSE {[branch |-> "formula",
               num |-> 206835 * wt.den * sw.den - 1015 * wt.num * sw.den
                         - 84600 * sw.num * wt.den,
               den |-> wt.den * sw.den,
               err |-> e] : e \in RoundingErrors}

\* (0.39 * (W / T)) + (11.8 * (S / W)) - 15.59
GradeFormula(S, W, T) ==
    LET wt == Divide(W, T)
        sw == Divide(S, W)
    IN  IF wt.error \/ sw.error THEN {RaiseZeroDivision}
        ELSE {[branch |-> "formula",
               num |-> 390 * wt.num * sw.den + 11800 * sw.num * wt.den
                         - 15590 * wt.den * sw.den,
               den |-> wt.den * sw.den,
               err |-> e] : e \in RoundingErrors}

\* the values the call can return
compute_FleschReadingEase(S, W, T) ==
    IF EaseGuard(S, W, T) THEN {ReturnZero} ELSE EaseFormula(S, W, T)

compute_FleschKincaidGradeLevel(S, W, T) ==
    IF GradeGuard(S, W, T) THEN {ReturnZero} ELSE GradeFormula(S, W, T)

-----------------------------------------------------------------------------
(* SpecFormula: the two formulas applied to every triple of small counts   *)

MaxCount == 4

FormulaInit ==
    /\ pc = "compute_FleschReadingEase"
    /\ totalSyllables \in 0..MaxCount
    /\ totalWords \in 0..MaxCount
    /\ totalSentences \in 0..MaxCount
    /\ readingEase = NoScore /\ readingLevel = NoScore
    /\ file = <<>> /\ fileAsString = NoString
    /\ report = NoReport /\ reportBefore = NoReport /\ lastReported = NoRun
    /\ console = NoString /\ word = <<>> /\ syllables = NoTrace
    /\ topN = 0 /\ sorted_WC = <<>>

CallFleschReadingEase ==
    /\ pc = "compute_FleschReadingEase"
    /\ readingEase' \in compute_FleschReadingEase(totalSyllables, totalWords, totalSentences)
    /\ pc' = "compute_FleschKincaidGradeLevel"
    /\ UNCHANGED << file, fileAsString, totalSyllables, totalWords,
                    totalSentences, readingLevel, report, reportBefore, lastReported,
                    console, word, syllables, topN, sorted_WC >>

CallFleschKincaidGradeLevel ==
    /\ pc = "compute_FleschKincaidGradeLevel"
    /\ readingLevel' \in compute_FleschKincaidGradeLevel(totalSyllables, totalWords, totalSentences)
    /\ pc' = "computed"
    /\ UNCHANGED << file, fileAsString, totalSyllables, totalWords,
                    totalSentences, readingEase, report, reportBefore, lastReported,
                    console, word, syllables, topN, sorted_WC >>

FormulaNext == CallFleschReadingEase \/ CallFleschKincaidGradeLevel

SpecFormula == FormulaInit /\ [][FormulaNext]_vars

\* C6: both formulas return 0 through the guard, without dividing, whenever
\* one of the three counts is 0, whatever the other two are; with all three
\* positive neither takes the guard branch.
ZeroGuardExact ==
    pc = "computed" =>
        LET anyZero == totalSyllables = 0 \/ totalWords = 0 \/ totalSentences = 0 IN
        /\ anyZero => (readingEase = ReturnZero /\ readingLevel = ReturnZero)
        /\ ~anyZero => (readingEase.branch = "formula" /\ readingLevel.branch = "formula")

\* zero syllables alone, with words and sentences present
ZeroSyllablesGuarded ==
    /\ pc = "computed"
    /\ totalSyllables = 0 /\ totalWords = 3 /\ totalSentences = 2
    /\ readingEase = ReturnZero
    /\ readingLevel = ReturnZero

-----------------------------------------------------------------------------
(* remove_punctuation, the word counts and the two report writers          *)

remove_punctuation(s) == SelectSeq(s, LAMBDA letter : letter \notin Punctuation)

Digits == <<"0","1","2","3","4","5","6","7","8","9">>

\* str(n) and "%d" % n for n >= 0
RECURSIVE IntToStr(_)
IntToStr(n) ==
    IF n < 10 THEN <<Digits[n + 1]>>
    ELSE IntToStr(n \div 10) \o <<Digits[(n % 10) + 1]>>

\* the loop that fills the dict WC; a dict keeps its keys in insertion order,
\* so WC is the sequence of its <<word, count>> items
RECURSIVE CountWords(_, _)
CountWords(listOfWords, WC) ==
    IF listOfWords = <<>> THEN WC
    ELSE LET nextWord == Head(listOfWords) IN
         IF \E i \in 1..Len(WC) : WC[i][1] = nextWord
         THEN CountWords(Tail(listOfWords),
                         [i \in 1..Len(WC) |->
                             IF WC[i][1] = nextWord
                             THEN <<nextWord, WC[i][2] + 1>> ELSE WC[i]])
         ELSE CountWords(Tail(listOfWords), Append(WC, <<nextWord, 1>>))

\* one item placed into a list sorted by descending count, behind the items
\* of equal count already there
RECURSIVE InsertByCount(_, _)
InsertByCount(item, sortedItems) ==
    IF sortedItems = <<>> THEN <<item>>
    ELSE IF Head(sortedItems)[2] >= item[2]
         THEN <<Head(sortedItems)>> \o InsertByCount(item, Tail(sortedItems))
         ELSE <<item>> \o sortedItems

RECURSIVE SortFrom(_, _)
SortFrom(items, sortedItems) ==
    IF items = <<>> THEN sortedItems
    ELSE SortFrom(Tail(items), InsertByCount(Head(items), sortedItems))

Reverse(items) == [i \in 1..Len(items) |-> items[Len(items) + 1 - i]]

\* sorted(WC.items(), key=count)[::-1]: ascending stable sort, then reversed
SortedByCount_AscendingReversed(items) == SortFrom(Reverse(items), <<>>)

\* sorted(WC.items(), key=lambda x: x[1], reverse=True): stable, descending
SortedByCount(items) == SortFrom(items, <<>>)

\* the ranking sorted_WC of printTopNwords
Ranking(s) == SortedByCount(CountWords(split(remove_punctuation(s)), <<>>))

RowLine(item) == IntToStr(item[2]) \o <<",">> \o item[1] \o <<"\n">>

\* the writing loop with the counter advanced for the skipped marker too
RECURSIVE TopLines_MarkerUsesSlot(_, _, _)
TopLines_MarkerUsesSlot(items, cnt, N) ==
    IF items = <<>> THEN <<>>
    ELSE IF Head(items)[1] # <<"X","X","X">> /\ cnt <= N
         THEN RowLine(Head(items)) \o TopLines_MarkerUsesSlot(Tail(items), cnt + 1, N)
         ELSE TopLines_MarkerUsesSlot(Tail(items),
                  IF Head(items)[1] = <<"X","X","X">> THEN cnt + 1 ELSE cnt, N)

\* the writing loop of printTopNwords; cnt is the local count
RECURSIVE TopLines(_, _, _)
TopLines(items, cnt, N) ==
    IF items = <<>> THEN <<>>
    ELSE IF Head(items)[1] # <<"X","X","X">> /\ cnt <= N
         THEN RowLine(Head(items)) \o TopLines(Tail(items), cnt + 1, N)
         ELSE TopLines(Tail(items), cnt, N)

TopHeader == <<"\n","\n","T","O","P"," ","W","O","R","D","S"," ","H","E","R","E","\n">>

\* open("report.csv", "a"): an absent file is created empty
OpenAppend(rep) == [exists |-> TRUE, content |-> rep.content]

\* open("report.csv", "w"): created or truncated
OpenWrite(rep) == [exists |-> TRUE, content |-> <<>>]

Write(rep, text) == [rep EXCEPT !.content = @ \o text]

\* report.csv after printTopNwords(s, N)
printTopNwords(s, N, rep) ==
    Write(Write(OpenAppend(rep), TopHeader), TopLines(Ranking(s), 1, N))

-----------------------------------------------------------------------------
(* SpecTopN: printTopNwords applied to the normalised text of every file   *)
(* of a bounded set, for every N up to a bound                             *)

MaxTextLen == 5
MaxN == 2

TopAlphabet == {"a", "x", " ", "."}

Line_TheCat == <<"t","h","e"," ","t","h","e"," ","c","a","t"," ","c","a","t"," ","d","o","g">>

TopSampleFiles == {
    << Line_TheCat >>,
    << Line_CatDog >>,
    << <<"d","o","n","'","t"," ","s","t","o","p","."," ","c","a","n","'","t"," ","s","t","o","p">> >>,
    << <<"a",","," ","b","."," ","a",",","b">> >>,
    << <<"x","x","x"," ","X","X","X","."," ","X","x","x">> >>,
    << <<"i","t"," ","i","s","."," ","i","t"," ","i","s","?"," ","i","t"," ","i","s","!"," ","s","o">> >>,
    << <<"a"," ","b","."," ">>, <<"b"," ","c","!">>, <<"c"," ","b">> >> }

TopFiles == {<<l>> : l \in StringsUpTo(TopAlphabet, MaxTextLen)} \cup TopSampleFiles

TopInit ==
    /\ pc = "printTopNwords"
    /\ \E f \in TopFiles : file = f /\ fileAsString = getData(f)
    /\ topN \in 0..MaxN
    /\ sorted_WC = <<>>
    /\ report = NoReport /\ reportBefore = NoReport /\ lastReported = NoRun
    /\ totalSyllables = 0 /\ totalWords = 0 /\ totalSentences = 0
    /\ readingEase = NoScore /\ readingLevel = NoScore
    /\ console = NoString /\ word = <<>> /\ syllables = NoTrace

CallPrintTopNwords ==
    /\ pc = "printTopNwords"
    /\ sorted_WC' = Ranking(fileAsString)
    /\ report' = printTopNwords(fileAsString, topN, report)
    /\ pc' = "printed"
    /\ UNCHANGED << file, fileAsString, totalSyllables, totalWords,
                    totalSentences, readingEase, readingLevel, reportBefore, lastReported,
                    console, word, syllables, topN >>

TopNext == CallPrintTopNwords

SpecTopN == TopInit /\ [][TopNext]_vars

Tokens == split(remove_punctuation(fileAsString))

Occurrences(tok) == Cardinality({j \in 1..Len(Tokens) : Tokens[j] = tok})

FirstOccurrence(tok) == CHOOSE j \in 1..Len(Tokens) :
    Tokens[j] = tok /\ \A h \in 1..(j - 1) : Tokens[h] # tok

GenuineEntries == SelectSeq(sorted_WC, LAMBDA e : e[1] # SENTENCE_MARKER)

RECURSIVE Rows(_)
Rows(entries) ==
    IF entries = <<>> THEN <<>> ELSE RowLine(Head(entries)) \o Rows(Tail(entries))

Min(a, b) == IF a <= b THEN a ELSE b

\* C3: the rows printTopNwords appends are exactly the first min(N, k)
\* entries of the ranking with the marker entry removed, k being the number
\* of distinct non-marker tokens; "XXX" is in no row and uses no slot.
TopRowsSkipMarker ==
    pc = "printed" =>
        LET k == Cardinality({Tokens[j] : j \in 1..Len(Tokens)} \ {SENTENCE_MARKER})
            n == Min(topN, k)
        IN  /\ Len(GenuineEntries) = k
            /\ report.content = TopHeader \o Rows(SubSeq(GenuineEntries, 1, n))
            /\ count(report.content, <<",">>) = n
            /\ count(report.content, SENTENCE_MARKER) = 0

\* the marker ranks first and N is smaller than the number of words
MarkerRankedFirstSkipped ==
    /\ pc = "printed"
    /\ Len(sorted_WC) >= 3
    /\ sorted_WC[1][1] = SENTENCE_MARKER
    /\ topN = 1
    /\ report.content = TopHeader \o RowLine(sorted_WC[2])

\* C4: the ranking lists every distinct token once with its exact number of
\* occurrences, in non-increasing order of count, tokens of equal count in
\* the order of their first occurrence ("the the cat cat dog": the, cat, dog).
RankingStableDescending ==
    pc = "printed" =>
        /\ {sorted_WC[i][1] : i \in 1..Len(sorted_WC)} = {Tokens[j] : j \in 1..Len(Tokens)}
        /\ \A i, j \in 1..Len(sorted_WC) :
              i < j =>
                 /\ sorted_WC[i][1] # sorted_WC[j][1]
                 /\ sorted_WC[i][2] >= sorted_WC[j][2]
                 /\ sorted_WC[i][2] = sorted_WC[j][2] =>
                       FirstOccurrence(sorted_WC[i][1]) < FirstOccurrence(sorted_WC[j][1])
        /\ \A i \in 1..Len(sorted_WC) : sorted_WC[i][2] = Occurrences(sorted_WC[i][1])
        /\ file = << Line_TheCat >> =>
              sorted_WC = << << <<"t","h","e">>, 2 >>, << <<"c","a","t">>, 2 >>,
                             << <<"d","o","g">>, 1 >> >>

TheCatDogRanked ==
    /\ pc = "printed"
    /\ file = << Line_TheCat >>
    /\ Len(sorted_WC) = 3
    /\ sorted_WC[1][2] = sorted_WC[2][2]

-----------------------------------------------------------------------------
(* The corpus metrics, the metrics section of the report, and main         *)

WordsOf(s) == split(replace(s, SENTENCE_MARKER, <<" ">>))

getNumberOfTotalWords(s) == Len(WordsOf(s))

getNumberOfTotalSyllables(s) ==
    SumSeq([i \in 1..Len(WordsOf(s)) |-> syllablesPerWord(WordsOf(s)[i])])

\* n / d (d > 0) rounded to the nearest integer as "%.2f" rounds a double:
\* an exact tie goes the way of the double's rounding error, and to even
\* when the double is the tie itself
RoundNearest(n, d, err) ==
    LET q == n \div d
        r == n % d
    IN  IF 2 * r < d THEN q
        ELSE IF 2 * r > d THEN q + 1
        ELSE IF err < 0 THEN q
        ELSE IF err > 0 THEN q + 1
        ELSE IF q % 2 = 0 THEN q ELSE q + 1

RECURSIVE PadLeft(_, _)
PadLeft(text, width) ==
    IF Len(text) >= width THEN text ELSE PadLeft(<<" ">> \o text, width)

\* "%<width>.2f" % score
FormatF2(score, width) ==
    LET h == RoundNearest(score.num, 10 * score.den, score.err)
        a == IF h < 0 THEN 0 - h ELSE h
    IN  PadLeft((IF score.num < 0 THEN <<"-">> ELSE <<>>)
                  \o IntToStr(a \div 100) \o <<".">>
                  \o <<Digits[((a \div 10) % 10) + 1], Digits[(a % 10) + 1]>>,
                width)

MetricsHeader == <<"S","y","l","l","a","b","l","e","s",","," ","W","o","r","d","s",","," ","S","e","n","t","e","n","c","e","s",","," ","R","e","a","d","i","n","g"," ","E","a","s","e",","," ","R","e","a","d","i","n","g"," ","L","e","v","e","l","\n">>

\* "%d,%d,%d,%6.2f,%6.2f\n"
MetricsLine(S, W, T, ease, level) ==
    IntToStr(S) \o <<",">> \o IntToStr(W) \o <<",">> \o IntToStr(T) \o <<",">>
      \o FormatF2(ease, 6) \o <<",">> \o FormatF2(level, 6) \o <<"\n">>

\* printReadingLevelReport opening the file in append mode
OpenMetrics_Append(rep) == OpenAppend(rep)

\* CSV = open("report.csv", "w") of printReadingLevelReport
OpenMetrics(rep) == OpenWrite(rep)

\* report.csv after printReadingLevelReport
printReadingLevelReport(S, W, T, ease, level, rep) ==
    Write(Write(OpenMetrics(rep), MetricsHeader), MetricsLine(S, W, T, ease, level))

\* the test of main with "or" for "and"
HasWordsAndSentences_Or(W, T) == W > 0 \/ T > 0

\* if (totalWords > 0 and totalSentences > 0)
HasWordsAndSentences(W, T) == W > 0 /\ T > 0

ErrorMessage == <<"E","R","R","O","R",":"," "," ","C","a","n"," ","n","o","t"," ","c","o","m","p","u","t","e"," ","m","e","t","r","i","c","s"," ","w","i","t","h","o","u","t"," ","w","o","r","d","s",".">>

\* print(a, b): the arguments separated by a space, then a line end
Print2(label, n) == label \o <<" ">> \o IntToStr(n) \o <<"\n">>

\* the five lines main prints after a report
Summary(S, W, T, ease, level) ==
    Print2(<<"\n","t","o","t","a","l"," ","s","y","l","l","a","b","l","e","s",":"," ">>, S)
      \o Print2(<<"t","o","t","a","l"," ","w","o","r","d","s",":"," "," "," "," "," ">>, W)
      \o Print2(<<"t","o","t","a","l"," ","s","e","n","t","e","n","c","e","s",":"," ">>, T)
      \o <<"\n","R","e","a","d","i","n","g"," ","E","a","s","e",":"," "," "," "," ">>
      \o FormatF2(ease, 5) \o <<"\n">>
      \o <<"G","r","a","d","e"," ","L","e","v","e","l",":"," "," "," "," ">>
      \o FormatF2(level, 5) \o <<"\n">>

-----------------------------------------------------------------------------
(* Spec: runs of the script, one after another, over one report.csv.       *)
(* console holds what main itself printed last (the debugging prints of    *)
(* syllablesPerWord are left out).                                         *)

MaxMainLen == 3

MainAlphabet == {"a", ".", " "}

\* twelve distinct words, more than TOP_N_WORDS
Line_TwelveWords == <<"B","e"," ","a","n"," ","o","x"," ","o","r"," ","a"," ","p","i","g"," ","i","f"," ","w","e"," ","g","o"," ","u","p"," ","t","o"," ","i","t",".">>

MainSampleFiles == {
    <<>>,
    << Line_CatDog >>,
    << Line_DrSmith >>,
    << Line_TheCat >>,
    << Line_TwelveWords >>,
    << <<"I","s"," ","i","t"," ","s","o","?"," ">>, <<>>, <<"i","t"," ","i","s","!">> >>,
    << <<"?","!">> >> }

MainFiles == {<<l>> : l \in StringsUpTo(MainAlphabet, MaxMainLen)} \cup MainSampleFiles

\* a report.csv left by something else before the first run
StaleReport == [exists |-> TRUE,
                content |-> <<"W","o","r","d","s","\n","9",",","s","t","a","l","e","\n">>]

Init ==
    /\ pc = "main:getData"
    /\ report \in {NoReport, StaleReport}
    /\ reportBefore = report
    /\ lastReported = NoRun
    /\ file = <<>> /\ fileAsString = NoString
    /\ totalSyllables = 0 /\ totalWords = 0 /\ totalSentences = 0
    /\ readingEase = NoScore /\ readingLevel = NoScore
    /\ console = NoString /\ word = <<>> /\ syllables = NoTrace
    /\ topN = 0 /\ sorted_WC = <<>>

MainGetData ==
    /\ pc = "main:getData"
    /\ \E f \in MainFiles : file' = f /\ fileAsString' = getData(f)
    /\ pc' = "main:metrics"
    /\ UNCHANGED << totalSyllables, totalWords, totalSentences, readingEase,
                    readingLevel, report, reportBefore, lastReported, console,
                    word, syllables, topN, sorted_WC >>

MainMetrics ==
    /\ pc = "main:metrics"
    /\ totalSyllables' = getNumberOfTotalSyllables(fileAsString)
    /\ totalWords' = getNumberOfTotalWords(fileAsString)
    /\ totalSentences' = getNumberOfTotalSentences(fileAsString)
    /\ pc' = IF HasWordsAndSentences(totalWords', totalSentences')
             THEN "main:formulas" ELSE "main:error"
    /\ UNCHANGED << file, fileAsString, readingEase, readingLevel, report,
                    reportBefore, lastReported, console, word, syllables,
                    topN, sorted_WC >>

MainFormulas ==
    /\ pc = "main:formulas"
    /\ readingEase' \in compute_FleschReadingEase(totalSyllables, totalWords, totalSentences)
    /\ readingLevel' \in compute_FleschKincaidGradeLevel(totalSyllables, totalWords, totalSentences)
    /\ pc' = "main:printReadingLevelReport"
    /\ UNCHANGED << file, fileAsString, totalSyllables, totalWords,
                    totalSentences, report, reportBefore, lastReported,
                    console, word, syllables, topN, sorted_WC >>

MainPrintReadingLevelReport ==
    /\ pc = "main:printReadingLevelReport"
    /\ report' = printReadingLevelReport(totalSyllables, totalWords, totalSentences,
                                         readingEase, readingLevel, report)
    /\ pc' = "main:printTopNwords"
    /\ UNCHANGED << file, fileAsString, totalSyllables, totalWords,
                    totalSentences, readingEase, readingLevel, reportBefore,
                    lastReported, console, word, syllables, topN, sorted_WC >>

MainPrintTopNwords ==
    /\ pc = "main:printTopNwords"
    /\ topN' = TOP_N_WORDS
    /\ sorted_WC' = Ranking(fileAsString)
    /\ report' = printTopNwords(fileAsString, TOP_N_WORDS, report)
    /\ lastReported' = [ran |-> TRUE, file |-> file]
    /\ pc' = "main:summary"
    /\ UNCHANGED << file, fileAsString, totalSyllables, totalWords,
                    totalSentences, readingEase, readingLevel, reportBefore,
                    console, word, syllables >>

MainSummary ==
    /\ pc = "main:summary"
    /\ console' = Summary(totalSyllables, totalWords, totalSentences,
                          readingEase, readingLevel)
    /\ pc' = "main:done"
    /\ UNCHANGED << file, fileAsString, totalSyllables, totalWords,
                    totalSentences, readingEase, readingLevel, report,
                    reportBefore, lastReported, word, syllables, topN,
                    sorted_WC >>

MainError ==
    /\ pc = "main:error"
    /\ console' = ErrorMessage \o <<"\n">>
    /\ pc' = "main:done"
    /\ UNCHANGED << file, fileAsString, totalSyllables, totalWords,
                    totalSentences, readingEase, readingLevel, report,
                    reportBefore, lastReported, word, syllables, topN,
                    sorted_WC >>

\* the script is started again: fresh locals, the same report.csv
MainRunAgain ==
    /\ pc = "main:done"
    /\ pc' = "main:getData"
    /\ reportBefore' = report
    /\ file' = <<>> /\ fileAsString' = NoString
    /\ totalSyllables' = 0 /\ totalWords' = 0 /\ totalSentences' = 0
    /\ readingEase' = NoScore /\ readingLevel' = NoScore
    /\ console' = NoString /\ topN' = 0 /\ sorted_WC' = <<>>
    /\ UNCHANGED << report, lastReported, word, syllables >>

Next ==
    \/ MainGetData
    \/ MainMetrics
    \/ MainFormulas
    \/ MainPrintReadingLevelReport
    \/ MainPrintTopNwords
    \/ MainSummary
    \/ MainError
    \/ MainRunAgain

Spec == Init /\ [][Next]_vars

\* the number of places where sub occurs in s
Places(s, sub) ==
    Cardinality({i \in 1..(Len(s) - Len(sub) + 1) : SubSeq(s, i, i + Len(sub) - 1) = sub})

Degenerate == totalWords = 0 \/ totalSentences = 0

\* C5: when the normalised text has no word or no sentence, a run of main
\* calls neither report writer, leaves report.csv as it was, raises nothing
\* and ends with the diagnostic message.
DegenerateRunWritesNothing ==
    /\ pc \in {"main:formulas", "main:printReadingLevelReport",
               "main:printTopNwords", "main:summary"} => ~Degenerate
    /\ (pc \in {"main:error", "main:done"} /\ Degenerate) =>
          /\ report = reportBefore
          /\ readingEase = NoScore /\ readingLevel = NoScore
    /\ (pc = "main:done" /\ Degenerate) => console = ErrorMessage \o <<"\n">>

\* a text with words but no sentence, run when an earlier run's report exists
WordsWithoutSentenceKeepReport ==
    /\ pc = "main:done"
    /\ totalWords > 0 /\ totalSentences = 0
    /\ lastReported.ran
    /\ report.exists /\ report = reportBefore
    /\ console = ErrorMessage \o <<"\n">>

\* the metrics sections a run of main on file f can write (one, or two when
\* a score lies exactly between two hundredths)
MetricsSectionsOf(f) ==
    LET s == getData(f)
        S == getNumberOfTotalSyllables(s)
        W == getNumberOfTotalWords(s)
        T == getNumberOfTotalSentences(s)
    IN  {MetricsHeader \o MetricsLine(S, W, T, e, l) :
            e \in compute_FleschReadingEase(S, W, T),
            l \in compute_FleschKincaidGradeLevel(S, W, T)}

\* the top-words section a run of main on file f writes

TopSectionOf(f) == TopHeader \o Rows(SubSeq(
    SelectSeq(Ranking(getData(f)), LAMBDA e : e[1] # SENTENCE_MARKER), 1,
    Min(TOP_N_WORDS, Len(SelectSeq(Ranking(getData(f)), LAMBDA e : e[1] # SENTENCE_MARKER)))))

\* C10: a non-degenerate run writes the metrics section by truncating
\* report.csv, then appends the top-words section; after any sequence of runs
\* the report is exactly one metrics section followed by exactly one top-words
\* section, both of the latest non-degenerate run, and nothing else.
ReportIsLatestRun ==
    /\ pc = "main:printTopNwords" =>
          /\ report = [exists |-> TRUE,
                       content |-> MetricsHeader \o MetricsLine(totalSyllables,
                           totalWords, totalSentences, readingEase, readingLevel)]
          /\ report.content \in MetricsSectionsOf(file)
    /\ (pc \in {"main:summary", "main:done"} /\ ~Degenerate) =>
          lastReported = [ran |-> TRUE, file |-> file]
    /\ (lastReported.ran /\ pc # "main:printTopNwords") =>
          /\ report.exists
          /\ \E m \in MetricsSectionsOf(lastReported.file) :
                report.content = m \o TopSectionOf(lastReported.file)
          /\ Places(report.content, MetricsHeader) = 1
          /\ Places(report.content, TopHeader) = 1

\* a run that replaced the report of an earlier run on another text
ReportReplaced ==
    /\ pc = "main:done"
    /\ ~Degenerate
    /\ lastReported.file = << Line_TwelveWords >>
    /\ file = << Line_TwelveWords >>
    /\ Places(report.content, <<",">>) = 8 + TOP_N_WORDS
    /\ Places(reportBefore.content, MetricsHeader) = 1
    /\ Places(reportBefore.content, TopHeader) = 1
    /\ reportBefore # report

-----------------------------------------------------------------------------
(* SpecMetrics: the three corpus metrics and the two formulas as main      *)
(* calls them, on the normalised text of every file of a bounded set       *)

MaxMetricLen == 5

MetricAlphabet == {"o", "w", "e", " ", "."}

MetricFiles ==
    {<<l>> : l \in StringsUpTo(MetricAlphabet, MaxMetricLen)}
      \cup {<< Line_CatDog >>, << Line_TwelveWords >>, << Line_TheCat >>,
            << <<"O","w","e","?">>, <<"a","w","e"," ","y","o","u","!">> >>}

MetricsInit ==
    /\ pc = "main:metrics"
    /\ \E f \in MetricFiles : file = f /\ fileAsString = getData(f)
    /\ totalSyllables = 0 /\ totalWords = 0 /\ totalSentences = 0
    /\ readingEase = NoScore /\ readingLevel = NoScore
    /\ report = NoReport /\ reportBefore = NoReport /\ lastReported = NoRun
    /\ console = NoString /\ word = <<>> /\ syllables = NoTrace
    /\ topN = 0 /\ sorted_WC = <<>>

MetricsNext == MainMetrics \/ MainFormulas

SpecMetrics == MetricsInit /\ [][MetricsNext]_vars

\* C11: the syllable total is at least the word total, both taken over the
\* same tokens; so when main's test on words and sentences passes, the
\* syllable total is positive too and neither formula returns through its
\* zero guard.
SyllablesAtLeastWords ==
    /\ pc # "main:metrics" =>
          /\ totalWords = Len(WordsOf(fileAsString))
          /\ totalSyllables >= totalWords
    /\ pc = "main:formulas" =>
          totalWords > 0 /\ totalSentences > 0 /\ totalSyllables > 0
    /\ pc = "main:printReadingLevelReport" =>
          readingEase.branch = "formula" /\ readingLevel.branch = "formula"

\* two words whose running counts both reach 0, so each counts 1 syllable
FlooredWordsReachFormulas ==
    /\ pc = "main:printReadingLevelReport"
    /\ file = << <<"o","w"," ","e",".">> >>
    /\ totalWords = 2 /\ totalSyllables = 2 /\ totalSentences = 1
    /\ readingEase.branch = "formula"

=============================================================================
